---- MODULE Spec2Model ----
(***************************************************************************)
(* Model of the WhatsApp voice integration example:                        *)
(*   - TwiMLBuilder / DialBuilder / GatherBuilder (lib/twiml-templates.ts) *)
(*   - WhatsAppVoice / ConferenceSession          (lib/whatsapp-voice.ts)  *)
(*   - the Express server's conference registry   (examples/client.ts)     *)
(*   - WhatsAppVoiceClient, the browser page      (examples/client.ts)     *)
(* Strings are sequences of tokens; a document is the token sequence that  *)
(* Array.join('\n') produces from the builder's lines.                     *)
(***************************************************************************)
EXTENDS Integers, Sequences, FiniteSets, TLC

VARIABLES
  \* ---- TwiMLBuilder ----
  twiml,        \* TwiMLBuilder.twiml : string[]       (Seq of lines)
  dialB,        \* the DialBuilder returned by the last dial(options)
  gatherB,      \* the GatherBuilder returned by the last gather(options)
  docs,         \* the documents returned by build(), in call order
  receiver,     \* the object the last builder call returned (the chain's receiver)
  \* ---- WhatsAppVoiceUtils and TwiMLTemplates (pure functions) ----
  address,      \* the string handed to WhatsAppVoiceUtils
  applied,      \* the utility applied last, its argument and its result
  rendered,     \* the template rendered last, its parameters and its result
  \* ---- WhatsAppVoice / ConferenceSession ----
  activeCalls,        \* WhatsAppVoice.activeCalls       (keys = CallSid)
  activeConferences,  \* WhatsAppVoice.activeConferences (id -> session)
  sessions,           \* the ConferenceSession objects constructed so far
  calls,              \* the Call objects the device has produced
  tasks,              \* async operations suspended at an await
  destroyed,          \* destroy() has run
  lastOp,             \* the operation that took the last step, and its outcome
  \* ---- server (Express) ----
  srvConferences,     \* const activeConferences = new Map(...)
  now,                \* the clock read by new Date()
  platformCalls,      \* destinations passed to client.calls.create
  lastReq,            \* the request handled by the last step, and its response
  \* ---- WhatsAppVoiceClient (browser page) ----
  currentCall,        \* WhatsAppVoiceClient.currentCall (NoCall = undefined)
  callUI,             \* the state updateCallUI showed last
  callHandlers        \* calls carrying the client's handlers whose 'disconnect'
                      \* or 'error' is still to come

builderVars == <<twiml, dialB, gatherB, docs, receiver>>
pureVars    == <<address, applied, rendered>>
wrapperVars == <<activeCalls, activeConferences, sessions, calls, tasks,
                 destroyed, lastOp>>
serverVars  == <<srvConferences, now, platformCalls, lastReq>>
clientVars  == <<currentCall, callUI, callHandlers>>
vars == <<twiml, dialB, gatherB, docs, receiver, address, applied, rendered,
          activeCalls, activeConferences, sessions, calls, tasks, destroyed,
          lastOp, srvConferences, now, platformCalls, lastReq,
          currentCall, callUI, callHandlers>>

\* ---------------------------------------------------------------------
\* Bounds
\* ---------------------------------------------------------------------
MaxElems  == 2     \* top-level elements appended to one builder
MaxBuilds == 2     \* build() calls explored per builder

\* ---------------------------------------------------------------------
\* Strings
\* ---------------------------------------------------------------------
RECURSIVE Join(_, _)
\* Array.prototype.join(sep) over an array of token sequences
Join(lines, sep) ==
  IF lines = <<>> THEN <<>>
  ELSE IF Len(lines) = 1 THEN lines[1]
  ELSE lines[1] \o sep \o Join(Tail(lines), sep)

RECURSIVE Count(_, _)
\* number of occurrences of token t in the token sequence s
Count(s, t) ==
  IF s = <<>> THEN 0
  ELSE (IF Head(s) = t THEN 1 ELSE 0) + Count(Tail(s), t)

\* the channel prefix 'whatsapp:'
Prefix == <<"w", "h", "a", "t", "s", "a", "p", "p", ":">>

\* String.prototype.startsWith
StartsWith(s, p) == Len(s) >= Len(p) /\ SubSeq(s, 1, Len(p)) = p

NoValue == ""      \* undefined / absent option (falsy, like the empty string)

NoNumber == 0     \* undefined / absent numeric option (falsy, like 0)

\* `name="value"` pushed onto attrs when the string option is truthy
Attr(name, value) ==
  IF value = NoValue THEN <<>> ELSE << <<name, "=\"", value, "\"">> >>
\* the same for a numeric option
AttrN(name, value) ==
  IF value = NoNumber THEN <<>> ELSE << <<name, "=\"", ToString(value), "\"">> >>

\* ${attrs.length ? ' ' + attrs.join(' ') : ''}
AttrText(attrs) == IF attrs = <<>> THEN <<>> ELSE <<" ">> \o Join(attrs, <<" ">>)

\* ---------------------------------------------------------------------
\* TwiMLBuilder (lib/twiml-templates.ts)
\* ---------------------------------------------------------------------
Texts      == {"hi", "a<b"}
SayOptions == {[voice |-> NoValue, language |-> NoValue, loop |-> 0],
               [voice |-> "alice", language |-> NoValue, loop |-> 2]}
DialOptions == {[callerId |-> NoValue, timeout |-> 0, action |-> NoValue, method |-> NoValue],
                [callerId |-> "whatsapp:+15", timeout |-> 30, action |-> NoValue, method |-> NoValue]}
GatherOptions == {[input |-> NoValue, timeout |-> 0, numDigits |-> 0, action |-> NoValue, method |-> NoValue],
                  [input |-> "dtmf", timeout |-> 0, numDigits |-> 1, action |-> NoValue, method |-> NoValue]}
RecordOptions == {[maxLength |-> 120, transcribe |-> TRUE, action |-> NoValue, method |-> NoValue]}
NoBuilder == [none |-> TRUE]

XmlDecl       == <<"<?xml version=\"1.0\" encoding=\"UTF-8\"?>">>
ResponseOpen  == <<"<Response>">>
ResponseClose == <<"</Response>">>

\* number of top-level elements the array holds (bounds the exploration)
Elems(lines) ==
  Cardinality({i \in 1..Len(lines) :
     lines[i][1] \in {"  <Say", "  <Record", "  <Hangup />", "  <Dial", "  <Gather"}})

\* constructor(): pushes the declaration and <Response>
TwiMLBuilderNew == <<XmlDecl, ResponseOpen>>

SayLine(text, o) ==
  <<"  <Say">> \o AttrText(Attr("voice", o.voice) \o Attr("language", o.language)
                          \o AttrN("loop", o.loop))
             \o <<">", text, "</Say>">>

RecordLine(o) ==
  <<"  <Record">> \o AttrText(AttrN("maxLength", o.maxLength)
                             \o (IF o.transcribe THEN << <<"transcribe", "=\"", "true", "\"">> >> ELSE <<>>)
                             \o Attr("action", o.action) \o Attr("method", o.method))
                \o <<" />">>

HangupLine == <<"  <Hangup />">>

\* say(text, options)
Say(text, o) ==
  /\ Elems(twiml) < MaxElems
  /\ twiml' = Append(twiml, SayLine(text, o))
  /\ UNCHANGED <<dialB, gatherB, docs>>
  /\ receiver' = "TwiMLBuilder"
  /\ UNCHANGED <<wrapperVars, serverVars, pureVars, clientVars>>

\* record(options)
Record(o) ==
  /\ Elems(twiml) < MaxElems
  /\ twiml' = Append(twiml, RecordLine(o))
  /\ UNCHANGED <<dialB, gatherB, docs>>
  /\ receiver' = "TwiMLBuilder"
  /\ UNCHANGED <<wrapperVars, serverVars, pureVars, clientVars>>

\* hangup()
Hangup ==
  /\ Elems(twiml) < MaxElems
  /\ twiml' = Append(twiml, HangupLine)
  /\ UNCHANGED <<dialB, gatherB, docs>>
  /\ receiver' = "TwiMLBuilder"
  /\ UNCHANGED <<wrapperVars, serverVars, pureVars, clientVars>>

\* dial(options): returns a DialBuilder over the same array, pushes nothing
Dial(o) ==
  /\ dialB' = o
  /\ UNCHANGED <<twiml, gatherB, docs>>
  /\ receiver' = "DialBuilder"
  /\ UNCHANGED <<wrapperVars, serverVars, pureVars, clientVars>>

\* gather(options): returns a GatherBuilder over the same array
Gather(o) ==
  /\ gatherB' = o
  /\ UNCHANGED <<twiml, dialB, docs>>
  /\ receiver' = "GatherBuilder"
  /\ UNCHANGED <<wrapperVars, serverVars, pureVars, clientVars>>

\* DialBuilder.startDial
StartDialLine(o) ==
  <<"  <Dial">> \o AttrText(Attr("callerId", o.callerId) \o AttrN("timeout", o.timeout)
                           \o Attr("action", o.action) \o Attr("method", o.method))
              \o <<">">>
\* DialBuilder.endDial
EndDialLine == <<"  </Dial>">>

\* String.prototype.replace(pat, ''): drops the first occurrence of pat
RECURSIVE ReplaceFirst(_, _)
ReplaceFirst(s, pat) ==
  IF Len(s) < Len(pat) THEN s
  ELSE IF SubSeq(s, 1, Len(pat)) = pat THEN SubSeq(s, Len(pat) + 1, Len(s))
  ELSE <<Head(s)>> \o ReplaceFirst(Tail(s), pat)

DialNumbers == {Prefix \o <<"+", "1", "5">>, <<"+", "1", "6">>}
Identities  == {"agent"}
ClientParams == {<<>>, << <<"x", "1">> >>}   \* Object.entries(parameters)

\* DialBuilder.whatsapp(number)
DialWhatsapp(number) ==
  /\ dialB # NoBuilder
  /\ Elems(twiml) < MaxElems
  /\ twiml' = twiml \o <<StartDialLine(dialB),
                         <<"    <WhatsApp>">> \o ReplaceFirst(number, Prefix)
                                              \o <<"</WhatsApp>">>,
                         EndDialLine>>
  /\ UNCHANGED <<dialB, gatherB, docs>>
  /\ receiver' = "DialBuilder"
  /\ UNCHANGED <<wrapperVars, serverVars, pureVars, clientVars>>

ParameterLines(params) ==
  [i \in 1..Len(params) |->
     <<"      <Parameter name=\"", params[i][1], "\" value=\"", params[i][2], "\" />">>]

\* DialBuilder.client(identity, parameters)
DialClient(identity, params) ==
  /\ dialB # NoBuilder
  /\ Elems(twiml) < MaxElems
  /\ twiml' = twiml \o <<StartDialLine(dialB),
                         <<"    <Client>">>,
                         <<"      <Identity>", identity, "</Identity>">> >>
                    \o ParameterLines(params)
                    \o << <<"    </Client>">>, EndDialLine>>
  /\ UNCHANGED <<dialB, gatherB, docs>>
  /\ receiver' = "DialBuilder"
  /\ UNCHANGED <<wrapperVars, serverVars, pureVars, clientVars>>

ConferenceNames == {"room42"}
\* options of DialBuilder.conference; "undef" stands for an absent boolean
ConfTagOptions == {[startConferenceOnEnter |-> "undef", endConferenceOnExit |-> "undef",
                    muted |-> "undef", waitUrl |-> NoValue],
                   [startConferenceOnEnter |-> "true", endConferenceOnExit |-> "false",
                    muted |-> "false", waitUrl |-> "/wait"]}
BoolAttr(name, value) ==
  IF value = "undef" THEN <<>> ELSE << <<name, "=\"", value, "\"">> >>

\* DialBuilder.conference(name, options)
DialConference(name, o) ==
  /\ dialB # NoBuilder
  /\ Elems(twiml) < MaxElems
  /\ twiml' = twiml \o <<StartDialLine(dialB),
                         <<"    <Conference">>
                           \o AttrText(BoolAttr("startConferenceOnEnter", o.startConferenceOnEnter)
                                       \o BoolAttr("endConferenceOnExit", o.endConferenceOnExit)
                                       \o BoolAttr("muted", o.muted)
                                       \o Attr("waitUrl", o.waitUrl))
                           \o <<">", name, "</Conference>">>,
                         EndDialLine>>
  /\ UNCHANGED <<dialB, gatherB, docs>>
  /\ receiver' = "DialBuilder"
  /\ UNCHANGED <<wrapperVars, serverVars, pureVars, clientVars>>

Voices == {NoValue, "Polly.Joanna"}
GatherTexts == {"hi"}
\* GatherBuilder.say(text, voice) with startGather / endGather
GatherSay(text, voice) ==
  /\ gatherB # NoBuilder
  /\ Elems(twiml) < MaxElems
  /\ twiml' = twiml \o << <<"  <Gather">>
                            \o AttrText(Attr("input", gatherB.input) \o AttrN("timeout", gatherB.timeout)
                                        \o AttrN("numDigits", gatherB.numDigits)
                                        \o Attr("action", gatherB.action)
                                        \o Attr("method", gatherB.method))
                            \o <<">">>,
                          <<"    <Say">> \o (IF voice # NoValue THEN <<" voice=\"", voice, "\"">> ELSE <<>>)
                                         \o <<">", text, "</Say>">>,
                          <<"  </Gather>">> >>
  /\ UNCHANGED <<dialB, gatherB, docs>>
  /\ receiver' = "GatherBuilder"
  /\ UNCHANGED <<wrapperVars, serverVars, pureVars, clientVars>>

\* the array after build()'s push
BuildPush(lines) == Append(lines, ResponseClose)

\* build(): pushes </Response> and returns twiml.join('\n')
Build ==
  /\ Len(docs) < MaxBuilds
  /\ twiml' = BuildPush(twiml)
  /\ docs' = Append(docs, Join(twiml', <<"\n">>))
  /\ UNCHANGED <<dialB, gatherB>>
  /\ receiver' = "string"
  /\ UNCHANGED <<wrapperVars, serverVars, pureVars, clientVars>>

\* .build() called on what the previous call of the chain returned: DialBuilder
\* and GatherBuilder have no build method, so the call throws a TypeError
BuildOnReceiver ==
  \/ /\ receiver = "TwiMLBuilder"
     /\ Build
  \/ /\ receiver \in {"DialBuilder", "GatherBuilder"}
     /\ receiver' = "TypeError"
     /\ UNCHANGED <<twiml, dialB, gatherB, docs>>
     /\ UNCHANGED <<wrapperVars, serverVars, pureVars, clientVars>>

\* ---------------------------------------------------------------------
\* WhatsAppVoice and ConferenceSession (lib/whatsapp-voice.ts)
\* ---------------------------------------------------------------------
MaxCalls    == 3   \* Call objects the device produces
MaxSessions == 2   \* ConferenceSession objects constructed
MaxTasks    == 2   \* operations suspended at an await at one time
maxConcurrentCalls == 2   \* config.maxConcurrentCalls of the instance explored

ConfIds == {"c1", "c2"}
A1  == Prefix \o <<"+", "1", "5">>
A2  == Prefix \o <<"+", "1", "6">>
Bad == <<"+", "1", "7">>                 \* no channel prefix
Addresses == {A1, A2, Bad}
ParticipantLists == {<<>>, <<A1>>, <<A1, A2>>, <<A1, Bad>>, <<A1, A1>>}
Outcomes == {"ok", "fail"}              \* device.connect resolves / rejects

NoCall == 0
NoSession == 0
NoAddr == <<>>
NoConf == ""

\* record of the operation that took a step
\* res: "pending" while the operation is suspended at an await; an element of
\* Errors when it threw; otherwise what it did.
\* connects = device.connect invocations the operation made, once it has completed
Errors == {"invalid", "upstream", "not_found"}
Op(op, res, connects) == [op |-> op, res |-> res, connects |-> connects]

\* Map.prototype.has / get on ConferenceSession.participants
HasParticipant(ps, number) == \E i \in 1..Len(ps) : ps[i].number = number
ParticipantCall(ps, number) ==
  IF HasParticipant(ps, number)
  THEN ps[CHOOSE i \in 1..Len(ps) : ps[i].number = number].call
  ELSE NoCall

\* an insertion that does not look for the key: push({number, call})
MapSet_Append(ps, number, call) ==
  Append(ps, [number |-> number, call |-> call])

\* Map.prototype.set: an existing key keeps its position, a new key goes last
MapSet(ps, number, call) ==
  IF HasParticipant(ps, number)
  THEN [i \in 1..Len(ps) |-> IF ps[i].number = number
                              THEN [number |-> number, call |-> call] ELSE ps[i]]
  ELSE Append(ps, [number |-> number, call |-> call])

\* Map.prototype.delete
RECURSIVE MapDelete(_, _)
MapDelete(ps, number) ==
  IF ps = <<>> THEN <<>>
  ELSE IF Head(ps).number = number THEN Tail(ps)
  ELSE <<Head(ps)>> \o MapDelete(Tail(ps), number)

\* ConferenceSession.getParticipants
GetParticipants(sid) ==
  [i \in 1..Len(sessions[sid].participants) |-> sessions[sid].participants[i].number]

\* a hang-up that does not look at which calls it was given
CallsDisconnect_All(callsNow, cs) ==
  [c \in DOMAIN callsNow |-> [callsNow[c] EXCEPT !.status = "disconnected"]]

\* call.disconnect() on every call of the set cs.  The 'disconnect' event that
\* follows a local disconnect() finds the call already out of activeCalls
\* (disconnectCall and destroy delete it in the same step), so the call is
\* taken to be disconnected at once.
CallsDisconnect(callsNow, cs) ==
  [c \in DOMAIN callsNow |->
     IF c \in cs THEN [callsNow[c] EXCEPT !.status = "disconnected"] ELSE callsNow[c]]

\* device.connect(options): the Call it resolves with is appended
Connect(outcome, listeners) ==
  IF outcome = "ok"
  THEN Append(calls, [status |-> "open", listeners |-> listeners])
  ELSE calls
ConnectedCall(outcome) == IF outcome = "ok" THEN Len(calls) + 1 ELSE NoCall
CanConnect(outcome) == outcome = "ok" => Len(calls) < MaxCalls

RemoveAt(seq, i) == SubSeq(seq, 1, i - 1) \o SubSeq(seq, i + 1, Len(seq))

\* an operation suspended at an await: its position and the locals it resumes
\* with (options = the participants initialize() was given, todo = those its
\* loop has not reached yet)
Task(op, phase, sid, conf, number, call, options, todo, connects) ==
  [op |-> op, phase |-> phase, sid |-> sid, conf |-> conf, number |-> number,
   call |-> call, options |-> options, todo |-> todo, connects |-> connects]

\* the check makeCall and addParticipant make on the destination
ValidDestination(number) == StartsWith(number, Prefix)

\* makeCall(options), up to the await on device.connect
MakeCallStart(to, outcome) ==
  /\ ~destroyed
  /\ IF ~ValidDestination(to)
     THEN /\ lastOp' = Op("makeCall", "invalid", 0)
          /\ UNCHANGED <<calls, tasks>>
     ELSE /\ Len(tasks) < MaxTasks
          /\ CanConnect(outcome)
          /\ calls' = Connect(outcome, FALSE)
          /\ tasks' = Append(tasks, Task("makeCall", "connect", NoSession, NoConf, to,
                                         ConnectedCall(outcome), <<>>, <<>>, 1))
          /\ lastOp' = Op("makeCall", "pending", 0)
  /\ UNCHANGED <<activeCalls, activeConferences, sessions, destroyed>>
  /\ UNCHANGED <<builderVars, serverVars, pureVars, clientVars>>

\* what makeCall does with the call device.connect resolved with
MakeCallRegister(call) == activeCalls \cup {call}

\* makeCall after the await: activeCalls.set(CallSid, call) or rethrow
MakeCallResume(i) ==
  /\ i \in 1..Len(tasks)
  /\ tasks[i].op = "makeCall"
  /\ tasks' = RemoveAt(tasks, i)
  /\ IF tasks[i].call = NoCall
     THEN /\ lastOp' = Op("makeCall", "upstream", 1)
          /\ UNCHANGED activeCalls
     ELSE /\ activeCalls' = MakeCallRegister(tasks[i].call)
          /\ lastOp' = Op("makeCall", "ok", 1)
  /\ UNCHANGED <<activeConferences, sessions, calls, destroyed>>
  /\ UNCHANGED <<builderVars, serverVars, pureVars, clientVars>>

\* createConference(options): new ConferenceSession, then initialize() up to
\* its await on the device.connect that opens the conference call
CreateConferenceStart(conf, participants, outcome) ==
  /\ ~destroyed
  /\ Len(tasks) < MaxTasks
  /\ Len(sessions) < MaxSessions
  /\ CanConnect(outcome)
  /\ sessions' = Append(sessions, [conferenceId |-> conf, participants |-> <<>>,
                                   conferenceCall |-> NoCall, returned |-> FALSE])
  /\ calls' = Connect(outcome, FALSE)
  /\ tasks' = Append(tasks, Task("createConference", "conferenceCall", Len(sessions) + 1,
                                 conf, NoAddr, ConnectedCall(outcome), participants,
                                 participants, 1))
  /\ lastOp' = Op("createConference", "pending", 0)
  /\ UNCHANGED <<activeCalls, activeConferences, destroyed>>
  /\ UNCHANGED <<builderVars, serverVars, pureVars, clientVars>>

\* the session after the awaited device.connect of task t resolved
SessionAfterConnect(t) ==
  IF t.phase = "conferenceCall"
  THEN [sessions EXCEPT ![t.sid].conferenceCall = t.call]
  ELSE [sessions EXCEPT ![t.sid].participants = MapSet(@, t.number, t.call)]

\* createConference after an await: the rest of initialize() up to the next
\* await, and activeConferences.set once initialize() has returned
CreateConferenceResume(i, outcome) ==
  /\ i \in 1..Len(tasks)
  /\ tasks[i].op = "createConference"
  /\ LET t == tasks[i] IN
     IF t.call = NoCall
     THEN /\ tasks' = RemoveAt(tasks, i)
          /\ lastOp' = Op("createConference", "upstream", t.connects)
          /\ UNCHANGED <<sessions, calls, activeConferences>>
     ELSE IF t.todo = <<>>
     THEN /\ tasks' = RemoveAt(tasks, i)
          /\ sessions' = [SessionAfterConnect(t) EXCEPT ![t.sid].returned = TRUE]
          /\ activeConferences' =
               [c \in DOMAIN activeConferences \cup {t.conf} |->
                  IF c = t.conf THEN t.sid ELSE activeConferences[c]]
          /\ lastOp' = Op("createConference", "ok", t.connects)
          /\ UNCHANGED calls
     ELSE IF ~ValidDestination(Head(t.todo))
     THEN /\ tasks' = RemoveAt(tasks, i)
          /\ sessions' = SessionAfterConnect(t)
          /\ lastOp' = Op("createConference", "invalid", t.connects)
          /\ UNCHANGED <<calls, activeConferences>>
     ELSE /\ CanConnect(outcome)
          /\ sessions' = SessionAfterConnect(t)
          /\ calls' = Connect(outcome, FALSE)
          /\ tasks' = [tasks EXCEPT ![i] =
                         Task("createConference", "participant", t.sid, t.conf, Head(t.todo),
                              ConnectedCall(outcome), t.options, Tail(t.todo),
                              t.connects + 1)]
          /\ lastOp' = Op("createConference", "pending", 0)
          /\ UNCHANGED activeConferences
  /\ UNCHANGED <<activeCalls, destroyed>>
  /\ UNCHANGED <<builderVars, serverVars, pureVars, clientVars>>

\* ConferenceSession.addParticipant(number), up to its await on device.connect
AddParticipantBegin(op, sid, conf, number, outcome) ==
  IF ~ValidDestination(number)
  THEN /\ lastOp' = Op(op, "invalid", 0)
       /\ UNCHANGED <<calls, tasks>>
  ELSE /\ Len(tasks) < MaxTasks
       /\ CanConnect(outcome)
       /\ calls' = Connect(outcome, FALSE)
       /\ tasks' = Append(tasks, Task("addParticipant", "participant", sid, conf, number,
                                      ConnectedCall(outcome), <<>>, <<>>, 1))
       /\ lastOp' = Op(op, "pending", 0)

\* conference.addParticipant(number) called on a session the caller holds
AddParticipantStart(sid, number, outcome) ==
  /\ ~destroyed
  /\ sid \in 1..Len(sessions)
  /\ sessions[sid].returned
  /\ AddParticipantBegin("addParticipant", sid, sessions[sid].conferenceId, number, outcome)
  /\ UNCHANGED <<activeCalls, activeConferences, sessions, destroyed>>
  /\ UNCHANGED <<builderVars, serverVars, pureVars, clientVars>>

\* joinConference(conferenceId, participant)
JoinConferenceStart(conf, number, outcome) ==
  /\ ~destroyed
  /\ IF conf \notin DOMAIN activeConferences
     THEN /\ lastOp' = Op("joinConference", "not_found", 0)
          /\ UNCHANGED <<calls, tasks>>
     ELSE AddParticipantBegin("joinConference", activeConferences[conf], conf, number, outcome)
  /\ UNCHANGED <<activeCalls, activeConferences, sessions, destroyed>>
  /\ UNCHANGED <<builderVars, serverVars, pureVars, clientVars>>

\* addParticipant after the await: participants.set(number, call) or rethrow
AddParticipantResume(i) ==
  /\ i \in 1..Len(tasks)
  /\ tasks[i].op = "addParticipant"
  /\ tasks' = RemoveAt(tasks, i)
  /\ LET t == tasks[i] IN
     IF t.call = NoCall
     THEN /\ lastOp' = Op("addParticipant", "upstream", 1)
          /\ UNCHANGED sessions
     ELSE /\ sessions' = SessionAfterConnect(t)
          /\ lastOp' = Op("addParticipant", "ok", 1)
  /\ UNCHANGED <<activeCalls, activeConferences, calls, destroyed>>
  /\ UNCHANGED <<builderVars, serverVars, pureVars, clientVars>>

\* removal by position, splice(indexOf(number), 1): an absent address (index
\* -1) takes the last participant out
RemoveParticipantEffect_Splice(sid, number) ==
  LET ps == sessions[sid].participants
      victim == IF HasParticipant(ps, number) \/ ps = <<>> THEN number
                ELSE ps[Len(ps)].number
  IN  IF HasParticipant(ps, victim)
      THEN [participants |-> MapDelete(ps, victim),
            calls |-> CallsDisconnect(calls, {ParticipantCall(ps, victim)})]
      ELSE [participants |-> ps, calls |-> calls]

\* the participants map and the calls after removeParticipant(number)
RemoveParticipantEffect(sid, number) ==
  LET ps == sessions[sid].participants IN
  IF HasParticipant(ps, number)
  THEN [participants |-> MapDelete(ps, number),
        calls |-> CallsDisconnect(calls, {ParticipantCall(ps, number)})]
  ELSE [participants |-> ps, calls |-> calls]

\* a removal that also drops the registry entry of a session it has emptied
RemoveParticipant_DropEmpty(sid, number) ==
  /\ sid \in 1..Len(sessions)
  /\ sessions[sid].returned
  /\ sessions' = [sessions EXCEPT ![sid].participants =
                    RemoveParticipantEffect(sid, number).participants]
  /\ calls' = RemoveParticipantEffect(sid, number).calls
  /\ lastOp' = Op("removeParticipant",
                  IF HasParticipant(sessions[sid].participants, number)
                  THEN "removed" ELSE "absent", 0)
  /\ activeConferences' =
       [c \in {d \in DOMAIN activeConferences :
                 activeConferences[d] = sid => sessions'[sid].participants # <<>>}
          |-> activeConferences[c]]
  /\ UNCHANGED <<activeCalls, tasks, destroyed>>
  /\ UNCHANGED <<builderVars, serverVars, pureVars, clientVars>>

\* ConferenceSession.removeParticipant(number)
RemoveParticipant(sid, number) ==
  /\ sid \in 1..Len(sessions)
  /\ sessions[sid].returned
  /\ sessions' = [sessions EXCEPT ![sid].participants =
                    RemoveParticipantEffect(sid, number).participants]
  /\ calls' = RemoveParticipantEffect(sid, number).calls
  /\ lastOp' = Op("removeParticipant",
                  IF HasParticipant(sessions[sid].participants, number)
                  THEN "removed" ELSE "absent", 0)
  /\ UNCHANGED <<activeCalls, activeConferences, tasks, destroyed>>
  /\ UNCHANGED <<builderVars, serverVars, pureVars, clientVars>>

\* an end() that hangs up the participants and leaves the conference call
SessionCalls_ParticipantsOnly(sid) ==
  {sessions[sid].participants[i].call : i \in 1..Len(sessions[sid].participants)}

\* the calls ConferenceSession.end() disconnects
SessionCalls(sid) ==
  {sessions[sid].participants[i].call : i \in 1..Len(sessions[sid].participants)}
    \cup (IF sessions[sid].conferenceCall # NoCall THEN {sessions[sid].conferenceCall} ELSE {})

\* ConferenceSession.end() applied to the sessions of the set sids
EndSessions(sids) ==
  [s \in DOMAIN sessions |->
     IF s \in sids THEN [sessions[s] EXCEPT !.participants = <<>>] ELSE sessions[s]]

\* conference.end() called on a session the caller holds
SessionEnd(sid) ==
  /\ sid \in 1..Len(sessions)
  /\ sessions[sid].returned
  /\ calls' = CallsDisconnect(calls, SessionCalls(sid))
  /\ sessions' = EndSessions({sid})
  /\ lastOp' = Op("end", "ok", 0)
  /\ UNCHANGED <<activeCalls, activeConferences, tasks, destroyed>>
  /\ UNCHANGED <<builderVars, serverVars, pureVars, clientVars>>

\* activeConferences.clear() in place of delete(conferenceId)
EndConferenceRegistry_Clear(conf) == <<>>

\* the registry after endConference(conf)
EndConferenceRegistry(conf) ==
  [c \in DOMAIN activeConferences \ {conf} |-> activeConferences[c]]

\* endConference(conferenceId)
EndConference(conf) ==
  /\ IF conf \in DOMAIN activeConferences
     THEN /\ calls' = CallsDisconnect(calls, SessionCalls(activeConferences[conf]))
          /\ sessions' = EndSessions({activeConferences[conf]})
          /\ activeConferences' = EndConferenceRegistry(conf)
     ELSE UNCHANGED <<calls, sessions, activeConferences>>
  /\ lastOp' = Op("endConference",
                  IF conf \in DOMAIN activeConferences THEN "ended" ELSE "absent", 0)
  /\ UNCHANGED <<activeCalls, tasks, destroyed>>
  /\ UNCHANGED <<builderVars, serverVars, pureVars, clientVars>>

\* disconnectCall(callSid)
DisconnectCall(c) ==
  /\ IF c \in activeCalls
     THEN /\ calls' = CallsDisconnect(calls, {c})
          /\ activeCalls' = activeCalls \ {c}
     ELSE UNCHANGED <<calls, activeCalls>>
  /\ lastOp' = Op("disconnectCall",
                  IF c \in activeCalls THEN "disconnected" ELSE "absent", 0)
  /\ UNCHANGED <<activeConferences, sessions, tasks, destroyed>>
  /\ UNCHANGED <<builderVars, serverVars, pureVars, clientVars>>

\* destroy()
Destroy ==
  /\ ~destroyed
  /\ LET ss == {activeConferences[c] : c \in DOMAIN activeConferences} IN
     /\ calls' = CallsDisconnect(calls,
                    activeCalls \cup UNION {SessionCalls(s) : s \in ss})
     /\ sessions' = EndSessions(ss)
  /\ activeCalls' = {}
  /\ activeConferences' = <<>>
  /\ destroyed' = TRUE
  /\ lastOp' = Op("destroy", "ok", 0)
  /\ UNCHANGED tasks
  /\ UNCHANGED <<builderVars, serverVars, pureVars, clientVars>>

\* device.on('incoming'): registers the call and its disconnect/error listeners
Incoming ==
  /\ ~destroyed
  /\ Len(calls) < MaxCalls
  /\ calls' = Connect("ok", TRUE)
  /\ activeCalls' = activeCalls \cup {Len(calls) + 1}
  /\ lastOp' = Op("incoming", "ok", 0)
  /\ UNCHANGED <<activeConferences, sessions, tasks, destroyed>>
  /\ UNCHANGED <<builderVars, serverVars, pureVars, clientVars>>

\* the listeners the wrapper attached to call c run: activeCalls.delete(CallSid)
CallListeners(c) == IF calls[c].listeners THEN activeCalls \ {c} ELSE activeCalls

\* the call emits 'disconnect' (the remote party, or the page, hangs up)
DisconnectEvent(c) ==
  /\ c \in 1..Len(calls)
  /\ calls[c].status = "open"
  /\ calls' = [calls EXCEPT ![c].status = "disconnected"]
  /\ activeCalls' = CallListeners(c)
  /\ lastOp' = Op("disconnectEvent", "ok", 0)
  /\ UNCHANGED <<activeConferences, sessions, tasks, destroyed>>
  /\ UNCHANGED <<builderVars, serverVars, pureVars, clientVars>>

\* the call emits 'error'
ErrorEvent(c) ==
  /\ c \in 1..Len(calls)
  /\ calls[c].status = "open"
  /\ calls' = [calls EXCEPT ![c].status = "disconnected"]
  /\ activeCalls' = CallListeners(c)
  /\ lastOp' = Op("errorEvent", "ok", 0)
  /\ UNCHANGED <<activeConferences, sessions, tasks, destroyed>>
  /\ UNCHANGED <<builderVars, serverVars, pureVars, clientVars>>

\* ---------------------------------------------------------------------
\* The server's conference registry (examples/client.ts, Express part)
\* ---------------------------------------------------------------------
MaxTime          == 1   \* clock readings after the initial one
MaxPlatformCalls == 1   \* client.calls.create invocations explored

Callers == {A1, A2}                       \* req.body.From
NoPlus == Prefix \o <<"1", "5">>          \* the prefix, then no '+'
Destinations == Addresses \cup {NoPlus}   \* options.to, req.body.to, req.body.participant
ConferenceEventNames ==
  {"conference-start", "conference-end", "participant-join", "participant-leave",
   "participant-mute", "participant-unmute", "unknown"}
NoModerator == <<>>                       \* moderator: undefined

\* the response sent by the handler that took the last step
Req(handler, status, body) == [handler |-> handler, status |-> status, body |-> body]

\* Map.prototype.set on the registry
RegistrySet(reg, name, record) ==
  [n \in DOMAIN reg \cup {name} |-> IF n = name THEN record ELSE reg[n]]

\* Map.prototype.delete on the registry
RegistryDelete(reg, name) == [n \in DOMAIN reg \ {name} |-> reg[n]]

\* Array.prototype.includes
Includes(seq, x) == \E i \in 1..Len(seq) : seq[i] = x

\* the registry after POST /voice/conference/create
ConferenceCreateRegistry(name, moderator, from) ==
  RegistrySet(srvConferences, name,
              [id |-> name, participants |-> <<>>,
               moderator |-> IF moderator THEN from ELSE NoModerator,
               createdAt |-> now])

\* app.post('/voice/conference/create'); moderator is Moderator === 'true'
WebhookConferenceCreate(name, moderator, from) ==
  /\ srvConferences' = ConferenceCreateRegistry(name, moderator, from)
  /\ lastReq' = Req("/voice/conference/create", 200, "twiml")
  /\ UNCHANGED <<now, platformCalls>>
  /\ UNCHANGED <<builderVars, wrapperVars, pureVars, clientVars>>

\* the registry after POST /voice/conference/join
ConferenceJoinRegistry(name, from) ==
  IF name \in DOMAIN srvConferences /\ ~Includes(srvConferences[name].participants, from)
  THEN [srvConferences EXCEPT ![name].participants = Append(@, from)]
  ELSE srvConferences

\* app.post('/voice/conference/join')
WebhookConferenceJoin(name, from) ==
  /\ srvConferences' = ConferenceJoinRegistry(name, from)
  /\ lastReq' = Req("/voice/conference/join", 200, "twiml")
  /\ UNCHANGED <<now, platformCalls>>
  /\ UNCHANGED <<builderVars, wrapperVars, pureVars, clientVars>>

\* a handler that deletes the record whatever the event is
ConferenceEventRegistry_AnyEvent(name, event) == RegistryDelete(srvConferences, name)

\* the registry after POST /conference-events
ConferenceEventRegistry(name, event) ==
  IF event = "conference-end" THEN RegistryDelete(srvConferences, name)
  ELSE srvConferences

\* app.post('/conference-events')
ConferenceEvent(name, event) ==
  /\ srvConferences' = ConferenceEventRegistry(name, event)
  /\ lastReq' = Req("/conference-events", 200, "none")
  /\ UNCHANGED <<now, platformCalls>>
  /\ UNCHANGED <<builderVars, wrapperVars, pureVars, clientVars>>

\* app.post('/api/conference/:conferenceId/add-participant');
\* outcome is that of client.calls.create
ApiAddParticipant(conferenceId, participant, outcome) ==
  /\ IF ~StartsWith(participant, Prefix)
     THEN /\ lastReq' = Req("/api/conference/add-participant", 400, "json")
          /\ UNCHANGED platformCalls
     ELSE IF conferenceId \notin DOMAIN srvConferences
     THEN /\ lastReq' = Req("/api/conference/add-participant", 404, "json")
          /\ UNCHANGED platformCalls
     ELSE IF outcome = "ok"
     THEN /\ Len(platformCalls) < MaxPlatformCalls
          /\ platformCalls' = Append(platformCalls, participant)
          /\ lastReq' = Req("/api/conference/add-participant", 200, "json")
     ELSE /\ lastReq' = Req("/api/conference/add-participant", 500, "json")
          /\ UNCHANGED platformCalls
  /\ UNCHANGED <<srvConferences, now>>
  /\ UNCHANGED <<builderVars, wrapperVars, pureVars, clientVars>>

\* app.post('/api/call/outbound'); outcome is that of client.calls.create
ApiCallOutbound(to, outcome) ==
  /\ IF ~StartsWith(to, Prefix)
     THEN /\ lastReq' = Req("/api/call/outbound", 400, "json")
          /\ UNCHANGED platformCalls
     ELSE IF outcome = "ok"
     THEN /\ Len(platformCalls) < MaxPlatformCalls
          /\ platformCalls' = Append(platformCalls, to)
          /\ lastReq' = Req("/api/call/outbound", 200, "json")
     ELSE /\ lastReq' = Req("/api/call/outbound", 500, "json")
          /\ UNCHANGED platformCalls
  /\ UNCHANGED <<srvConferences, now>>
  /\ UNCHANGED <<builderVars, wrapperVars, pureVars, clientVars>>

\* time passes between two requests
Tick ==
  /\ now < MaxTime
  /\ now' = now + 1
  /\ lastReq' = Req("none", 0, "none")
  /\ UNCHANGED <<srvConferences, platformCalls>>
  /\ UNCHANGED <<builderVars, wrapperVars, pureVars, clientVars>>

\* ---------------------------------------------------------------------
\* WhatsAppVoiceUtils (lib/whatsapp-voice.ts)
\* ---------------------------------------------------------------------
MaxParts == 4      \* pieces an input string is put together from

Digits        == {"0", "1", "2", "3", "4", "5", "6", "7", "8", "9"}
NonZeroDigits == Digits \ {"0"}
D15 == <<"2", "3", "4", "5", "6", "7", "8", "9", "0", "1", "2", "3", "4", "5", "6">>
Pieces == {Prefix, <<"+">>, <<"0">>, <<"1">>, D15, <<"x">>}

\* the strings made of at most n pieces
RECURSIVE Strings(_)
Strings(n) ==
  IF n = 0 THEN {<<>>}
  ELSE LET shorter == Strings(n - 1)
       IN  shorter \cup {p \o s : p \in Pieces, s \in shorter}

\* s.replace(/^whatsapp:/, ''): drops the prefix when s begins with it
StripPrefix(s) ==
  IF StartsWith(s, Prefix) THEN SubSeq(s, Len(Prefix) + 1, Len(s)) ELSE s

\* formatting that puts a '+' in front without looking for one
FormatWhatsAppNumber_AlwaysPlus(phoneNumber) ==
  Prefix \o <<"+">> \o StripPrefix(phoneNumber)

\* WhatsAppVoiceUtils.formatWhatsAppNumber
FormatWhatsAppNumber(phoneNumber) ==
  LET cleanNumber == StripPrefix(phoneNumber)
      formattedNumber == IF StartsWith(cleanNumber, <<"+">>) THEN cleanNumber
                         ELSE <<"+">> \o cleanNumber
  IN  Prefix \o formattedNumber

\* the pattern without its closing anchor: /^whatsapp:\+[1-9]\d{1,14}/
IsValidWhatsAppNumber_Unanchored(number) ==
  /\ StartsWith(number, Prefix)
  /\ LET rest == SubSeq(number, Len(Prefix) + 1, Len(number)) IN
     /\ Len(rest) >= 3
     /\ rest[1] = "+"
     /\ rest[2] \in NonZeroDigits
     /\ rest[3] \in Digits

\* WhatsAppVoiceUtils.isValidWhatsAppNumber: /^whatsapp:\+[1-9]\d{1,14}$/.test
IsValidWhatsAppNumber(number) ==
  /\ StartsWith(number, Prefix)                       \* ^whatsapp:
  /\ LET rest == SubSeq(number, Len(Prefix) + 1, Len(number)) IN
     /\ Len(rest) >= 3
     /\ rest[1] = "+"                                 \* \+
     /\ rest[2] \in NonZeroDigits                     \* [1-9]
     /\ Len(rest) - 2 \in 1..14                       \* \d{1,14}$
     /\ \A i \in 3..Len(rest) : rest[i] \in Digits

\* taking the first nine characters off whatever the input is
ExtractPhoneNumber_Slice(whatsappNumber) ==
  SubSeq(whatsappNumber, Len(Prefix) + 1, Len(whatsappNumber))

\* WhatsAppVoiceUtils.extractPhoneNumber
ExtractPhoneNumber(whatsappNumber) == StripPrefix(whatsappNumber)

\* the record of one application of a utility
Applied(fn, arg, str, ok) == [fn |-> fn, arg |-> arg, str |-> str, ok |-> ok]

\* formatWhatsAppNumber(address); the caller goes on with the result
\* (WhatsAppVoiceClient.makeCall validates and dials what it formatted)
FormatStep ==
  /\ applied' = Applied("formatWhatsAppNumber", address, FormatWhatsAppNumber(address), FALSE)
  /\ address' = FormatWhatsAppNumber(address)
  /\ UNCHANGED rendered
  /\ UNCHANGED <<builderVars, wrapperVars, serverVars, clientVars>>

\* isValidWhatsAppNumber(address)
IsValidStep ==
  /\ applied' = Applied("isValidWhatsAppNumber", address, <<>>, IsValidWhatsAppNumber(address))
  /\ UNCHANGED <<address, rendered>>
  /\ UNCHANGED <<builderVars, wrapperVars, serverVars, clientVars>>

\* extractPhoneNumber(address)
ExtractStep ==
  /\ applied' = Applied("extractPhoneNumber", address, ExtractPhoneNumber(address), FALSE)
  /\ UNCHANGED <<address, rendered>>
  /\ UNCHANGED <<builderVars, wrapperVars, serverVars, clientVars>>

\* ---------------------------------------------------------------------
\* TwiMLTemplates (lib/twiml-templates.ts)
\* ---------------------------------------------------------------------
MaxOptions == 2    \* menu options handed to ivrMenu

TemplateNames == {"room42", "a<b", ""}        \* conferenceName
OptBools      == {"true", "false", "undef"}   \* an optional boolean parameter
WaitUrls      == {NoValue, "/wait"}
MenuDigits    == {"1", "2"}
Descriptions  == {"sales", "support"}
MenuOptions   == [digit : MenuDigits, description : Descriptions]
MenuLists     == UNION {[1..n -> MenuOptions] : n \in 0..MaxOptions}
Timeouts      == {NoNumber, 5}
CallerIds     == {"whatsapp:+15"}
ClientIdentities == {NoValue, "agent"}

NoDocument == <<>>                            \* nothing was returned

\* what a template call gave: the string it returned, or the error instead
Rendering(fn, params, error, doc) ==
  [fn |-> fn, params |-> params, error |-> error, doc |-> doc]

\* ${flag ? 'true' : 'false'}
BoolText(flag) == IF flag = "true" THEN "true" ELSE "false"

\* TwiMLTemplates.createConference.  The expression on line 40 opens the
\* string literal 'false}" and the line ends before it is closed, so the
\* template does not parse and no call of it returns a document.
CreateConferenceTemplate(params) ==
  [error |-> "SyntaxError", doc |-> NoDocument]

\* TwiMLTemplates.joinConference
JoinConferenceTemplate(params) ==
  [error |-> "none",
   doc |-> Join(<<XmlDecl,
                  ResponseOpen,
                  <<"  <Say voice=\"Polly.Joanna\">", "Connecting to conference", "</Say>">>,
                  <<"  <Dial>">>,
                  <<"    <Conference ">>,
                  <<"      ", "muted", "=\"", BoolText(params.muted), "\"">>,
                  <<"      ", "statusCallback", "=\"", "/conference-events", "\"">>,
                  <<"      ", "statusCallbackEvent", "=\"", "join leave mute hold", "\"">>,
                  <<"      ", "statusCallbackMethod", "=\"", "POST", "\"">>,
                  <<"    >">>,
                  <<"      ", params.conferenceName>>,
                  <<"    </Conference>">>,
                  <<"  </Dial>">>,
                  ResponseClose>>, <<"\n">>)]

\* the phrases in the order opposite to the one supplied
IvrPhrases_Reversed(menuOptions) ==
  [i \in 1..Len(menuOptions) |->
     <<"Press ", menuOptions[Len(menuOptions) + 1 - i].digit, " for ",
       menuOptions[Len(menuOptions) + 1 - i].description, ".">>]

\* menuOptions.map(option => `Press ${option.digit} for ${option.description}.`)
IvrPhrases(menuOptions) ==
  [i \in 1..Len(menuOptions) |->
     <<"Press ", menuOptions[i].digit, " for ", menuOptions[i].description, ".">>]

\* TwiMLTemplates.ivrMenu
IvrMenuTemplate(params) ==
  [error |-> "none",
   doc |-> Join(<<XmlDecl,
                  ResponseOpen,
                  <<"  <Gather ">>,
                  <<"    ", "input", "=\"", "dtmf", "\" ">>,
                  <<"    ", "timeout", "=\"",
                    ToString(IF params.timeout # NoNumber THEN params.timeout ELSE 10), "\"">>,
                  <<"    ", "numDigits", "=\"", "1", "\"">>,
                  <<"    ", "action", "=\"", "/ivr-response", "\"">>,
                  <<"    ", "method", "=\"", "POST", "\"">>,
                  <<"  >">>,
                  <<"    <Say voice=\"Polly.Joanna\">">>,
                  <<"      Please select from the following options:">>,
                  <<"      ">> \o Join(IvrPhrases(params.menuOptions), <<" ">>),
                  <<"    </Say>">>,
                  <<"  </Gather>">>,
                  <<"  <Say voice=\"Polly.Joanna\">",
                    "Sorry, I didn't receive a valid input. Goodbye.", "</Say>">>,
                  <<"  <Hangup />">>,
                  ResponseClose>>, <<"\n">>)]

\* Object.entries(customParams || {}).map(([key, value]) => `<Parameter ... />`)
ParameterTags(customParams) ==
  [i \in 1..Len(customParams) |->
     <<"<Parameter name=\"", customParams[i][1], "\" value=\"", customParams[i][2], "\" />">>]

\* TwiMLTemplates.incomingCall
IncomingCallTemplate(params) ==
  [error |-> "none",
   doc |-> Join(<<XmlDecl,
                  ResponseOpen,
                  <<"  <Say voice=\"Polly.Joanna\">", "Welcome to WhatsApp Business Calling", "</Say>">>,
                  <<"  <Dial ", "callerId", "=\"", params.callerId, "\">">>,
                  <<"    <Client>">>,
                  <<"      <Identity>",
                    IF params.clientIdentity # NoValue THEN params.clientIdentity
                    ELSE "default-client",
                    "</Identity>">>,
                  <<"      ">> \o Join(ParameterTags(params.customParams), <<"\n      ">>),
                  <<"    </Client>">>,
                  <<"  </Dial>">>,
                  ResponseClose>>, <<"\n">>)]

\* a call of TwiMLTemplates.createConference
RenderCreateConference(name, moderator, muted, waitUrl) ==
  /\ LET params == [conferenceName |-> name, moderator |-> moderator,
                    muted |-> muted, waitUrl |-> waitUrl]
         r == CreateConferenceTemplate(params)
     IN  rendered' = Rendering("createConference", params, r.error, r.doc)
  /\ UNCHANGED <<address, applied>>
  /\ UNCHANGED <<builderVars, wrapperVars, serverVars, clientVars>>

\* a call of TwiMLTemplates.joinConference
RenderJoinConference(name, muted) ==
  /\ LET params == [conferenceName |-> name, muted |-> muted]
         r == JoinConferenceTemplate(params)
     IN  rendered' = Rendering("joinConference", params, r.error, r.doc)
  /\ UNCHANGED <<address, applied>>
  /\ UNCHANGED <<builderVars, wrapperVars, serverVars, clientVars>>

\* a call of TwiMLTemplates.ivrMenu
RenderIvrMenu(menuOptions, timeout) ==
  /\ LET params == [menuOptions |-> menuOptions, timeout |-> timeout]
         r == IvrMenuTemplate(params)
     IN  rendered' = Rendering("ivrMenu", params, r.error, r.doc)
  /\ UNCHANGED <<address, applied>>
  /\ UNCHANGED <<builderVars, wrapperVars, serverVars, clientVars>>

\* a call of TwiMLTemplates.incomingCall
RenderIncomingCall(callerId, clientIdentity, customParams) ==
  /\ LET params == [callerId |-> callerId, clientIdentity |-> clientIdentity,
                    customParams |-> customParams]
         r == IncomingCallTemplate(params)
     IN  rendered' = Rendering("incomingCall", params, r.error, r.doc)
  /\ UNCHANGED <<address, applied>>
  /\ UNCHANGED <<builderVars, wrapperVars, serverVars, clientVars>>

\* ---------------------------------------------------------------------
\* WhatsAppVoiceClient (examples/client.ts, browser part)
\* ---------------------------------------------------------------------
PhoneNumbers == {Bad, A1, <<"x">>}        \* what the user typed into the page
CallUIStates == {"idle", "calling", "active"}

\* WhatsAppVoiceClient.makeCall(phoneNumber), up to the await on device.connect
\* inside whatsappVoice.makeCall; an error it throws is caught and reported
ClientMakeCallStart(phoneNumber, outcome) ==
  /\ ~destroyed
  /\ LET whatsappNumber == FormatWhatsAppNumber(phoneNumber) IN
     IF ~IsValidWhatsAppNumber(whatsappNumber) \/ ~ValidDestination(whatsappNumber)
     THEN /\ lastOp' = Op("client.makeCall", "invalid", 0)
          /\ UNCHANGED <<calls, tasks>>
     ELSE /\ Len(tasks) < MaxTasks
          /\ CanConnect(outcome)
          /\ calls' = Connect(outcome, FALSE)
          /\ tasks' = Append(tasks, Task("client.makeCall", "connect", NoSession, NoConf,
                                         whatsappNumber, ConnectedCall(outcome), <<>>, <<>>, 1))
          /\ lastOp' = Op("client.makeCall", "pending", 0)
  /\ UNCHANGED <<activeCalls, activeConferences, sessions, destroyed>>
  /\ UNCHANGED clientVars
  /\ UNCHANGED <<builderVars, serverVars, pureVars>>

\* WhatsAppVoiceClient.makeCall after the await: whatsappVoice.makeCall
\* registers and returns the call, then this.currentCall = call,
\* setupCallEventHandlers(call), updateCallUI('calling'); a rejection is caught
ClientMakeCallResume(i) ==
  /\ i \in 1..Len(tasks)
  /\ tasks[i].op = "client.makeCall"
  /\ tasks' = RemoveAt(tasks, i)
  /\ IF tasks[i].call = NoCall
     THEN /\ lastOp' = Op("client.makeCall", "upstream", 1)
          /\ UNCHANGED <<activeCalls, clientVars>>
     ELSE /\ activeCalls' = MakeCallRegister(tasks[i].call)
          /\ currentCall' = tasks[i].call
          /\ callHandlers' = callHandlers \cup {tasks[i].call}
          /\ callUI' = "calling"
          /\ lastOp' = Op("client.makeCall", "ok", 1)
  /\ UNCHANGED <<activeConferences, sessions, calls, destroyed>>
  /\ UNCHANGED <<builderVars, serverVars, pureVars>>

\* WhatsAppVoiceClient.hangupCall: currentCall.disconnect(), updateCallUI('idle');
\* currentCall keeps its value until the call's 'disconnect' event arrives
HangupCall ==
  /\ IF currentCall # NoCall
     THEN /\ calls' = CallsDisconnect(calls, {currentCall})
          /\ callUI' = "idle"
     ELSE UNCHANGED <<calls, callUI>>
  /\ lastOp' = Op("hangupCall", IF currentCall # NoCall THEN "ok" ELSE "absent", 0)
  /\ UNCHANGED <<currentCall, callHandlers>>
  /\ UNCHANGED <<activeCalls, activeConferences, sessions, tasks, destroyed>>
  /\ UNCHANGED <<builderVars, serverVars, pureVars>>

\* call.on('accept'): updateCallUI('active')
ClientAcceptEvent(c) ==
  /\ c \in callHandlers
  /\ calls[c].status = "open"
  /\ callUI' = "active"
  /\ lastOp' = Op("acceptEvent", "ok", 0)
  /\ UNCHANGED <<currentCall, callHandlers>>
  /\ UNCHANGED <<activeCalls, activeConferences, sessions, calls, tasks, destroyed>>
  /\ UNCHANGED <<builderVars, serverVars, pureVars>>

\* what the handlers setupCallEventHandlers put on 'disconnect' and on 'error'
\* do: updateCallUI('idle'); this.currentCall = undefined
ClientCallEnded(c) ==
  /\ c \in callHandlers
  /\ calls' = [calls EXCEPT ![c].status = "disconnected"]
  /\ activeCalls' = CallListeners(c)
  /\ callUI' = "idle"
  /\ currentCall' = NoCall
  /\ callHandlers' = callHandlers \ {c}
  /\ UNCHANGED <<activeConferences, sessions, tasks, destroyed>>
  /\ UNCHANGED <<builderVars, serverVars, pureVars>>

\* a call the client made emits 'disconnect' (after the remote party hung up,
\* or after hangupCall disconnected it)
ClientDisconnectEvent(c) ==
  /\ ClientCallEnded(c)
  /\ lastOp' = Op("disconnectEvent", "ok", 0)

\* a call the client made emits 'error'
ClientErrorEvent(c) ==
  /\ ClientCallEnded(c)
  /\ lastOp' = Op("errorEvent", "ok", 0)

\* ---------------------------------------------------------------------
\* Specifications
\* ---------------------------------------------------------------------
BuilderInit ==
  /\ twiml = TwiMLBuilderNew
  /\ dialB = NoBuilder
  /\ gatherB = NoBuilder
  /\ docs = <<>>
  /\ receiver = "TwiMLBuilder"

BuilderNext ==
  \/ \E t \in Texts, o \in SayOptions : Say(t, o)
  \/ \E o \in RecordOptions : Record(o)
  \/ Hangup
  \/ \E o \in DialOptions : Dial(o)
  \/ \E n \in DialNumbers : DialWhatsapp(n)
  \/ \E i \in Identities, p \in ClientParams : DialClient(i, p)
  \/ \E n \in ConferenceNames, o \in ConfTagOptions : DialConference(n, o)
  \/ \E o \in GatherOptions : Gather(o)
  \/ \E t \in GatherTexts, v \in Voices : GatherSay(t, v)
  \/ Build

\* new WhatsAppVoice(token, config)
WrapperInit ==
  /\ activeCalls = {}
  /\ activeConferences = <<>>
  /\ sessions = <<>>
  /\ calls = <<>>
  /\ tasks = <<>>
  /\ destroyed = FALSE
  /\ lastOp = Op("none", "ok", 0)

\* the call registry: activeCalls and the events of its calls
CallsNext ==
  \/ \E to \in Destinations, o \in Outcomes : MakeCallStart(to, o)
  \/ \E i \in 1..MaxTasks : MakeCallResume(i)
  \/ \E c \in 1..MaxCalls : DisconnectCall(c)
  \/ Incoming
  \/ \E c \in 1..MaxCalls : DisconnectEvent(c)
  \/ \E c \in 1..MaxCalls : ErrorEvent(c)
  \/ Destroy

\* the conference registry: activeConferences and its sessions.  No listener
\* is attached to a session's calls, so their events change no wrapper state
\* and are left to CallsNext.
ConfNext ==
  \/ \E c \in ConfIds, ps \in ParticipantLists, o \in Outcomes : CreateConferenceStart(c, ps, o)
  \/ \E i \in 1..MaxTasks, o \in Outcomes : CreateConferenceResume(i, o)
  \/ \E s \in 1..MaxSessions, a \in Addresses, o \in Outcomes : AddParticipantStart(s, a, o)
  \/ \E c \in ConfIds, a \in Addresses, o \in Outcomes : JoinConferenceStart(c, a, o)
  \/ \E i \in 1..MaxTasks : AddParticipantResume(i)
  \/ \E s \in 1..MaxSessions, a \in Addresses : RemoveParticipant(s, a)
  \/ \E s \in 1..MaxSessions : SessionEnd(s)
  \/ \E c \in ConfIds : EndConference(c)
  \/ Destroy

\* the server process after start-up
ServerInit ==
  /\ srvConferences = <<>>
  /\ now = 0
  /\ platformCalls = <<>>
  /\ lastReq = Req("none", 0, "none")

ServerNext ==
  \/ \E n \in ConfIds, m \in BOOLEAN, f \in Callers : WebhookConferenceCreate(n, m, f)
  \/ \E n \in ConfIds, f \in Callers : WebhookConferenceJoin(n, f)
  \/ \E n \in ConfIds, e \in ConferenceEventNames : ConferenceEvent(n, e)
  \/ \E n \in ConfIds, a \in Destinations, o \in Outcomes : ApiAddParticipant(n, a, o)
  \/ \E to \in Destinations, o \in Outcomes : ApiCallOutbound(to, o)
  \/ Tick

\* no utility applied and no template rendered yet
NoneApplied  == Applied("none", <<>>, <<>>, FALSE)
NoneRendered == Rendering("none", <<>>, "none", NoDocument)
PureInit ==
  /\ address = <<>>
  /\ applied = NoneApplied
  /\ rendered = NoneRendered

\* new WhatsAppVoiceClient()
ClientInit ==
  /\ currentCall = NoCall
  /\ callUI = "idle"
  /\ callHandlers = {}

Init == BuilderInit /\ WrapperInit /\ ServerInit /\ PureInit /\ ClientInit

\* One chained expression new TwiMLBuilder().a(..).b(..)...: every call is made
\* on the object the call before it returned.
\* TwiMLBuilder methods, called on a TwiMLBuilder
ChainSay(text, o) == receiver = "TwiMLBuilder" /\ Say(text, o)
ChainRecord(o)    == receiver = "TwiMLBuilder" /\ Record(o)
ChainHangup       == receiver = "TwiMLBuilder" /\ Hangup
ChainDial(o)      == receiver = "TwiMLBuilder" /\ Dial(o)
ChainGather(o)    == receiver = "TwiMLBuilder" /\ Gather(o)
\* DialBuilder methods, called on a DialBuilder
ChainWhatsapp(number)         == receiver = "DialBuilder" /\ DialWhatsapp(number)
ChainClient(identity, params) == receiver = "DialBuilder" /\ DialClient(identity, params)
ChainConference(name, o)      == receiver = "DialBuilder" /\ DialConference(name, o)
\* GatherBuilder.say, called on a GatherBuilder
ChainGatherSay(text, voice) == receiver = "GatherBuilder" /\ GatherSay(text, voice)

FluentNext ==
  \/ \E t \in Texts, o \in SayOptions : ChainSay(t, o)
  \/ \E o \in RecordOptions : ChainRecord(o)
  \/ ChainHangup
  \/ \E o \in DialOptions : ChainDial(o)
  \/ \E o \in GatherOptions : ChainGather(o)
  \/ \E n \in DialNumbers : ChainWhatsapp(n)
  \/ \E i \in Identities, p \in ClientParams : ChainClient(i, p)
  \/ \E n \in ConferenceNames, o \in ConfTagOptions : ChainConference(n, o)
  \/ \E t \in GatherTexts, v \in Voices : ChainGatherSay(t, v)
  \/ BuildOnReceiver

SpecFluent == Init /\ [][FluentNext]_vars

\* the utilities applied to one input string
UtilsInit ==
  /\ BuilderInit /\ WrapperInit /\ ServerInit /\ ClientInit
  /\ address \in Strings(MaxParts)
  /\ applied = NoneApplied
  /\ rendered = NoneRendered

UtilsNext == FormatStep \/ IsValidStep \/ ExtractStep

SpecUtils == UtilsInit /\ [][UtilsNext]_vars

\* the templates, each rendered from its parameters
TemplatesNext ==
  \/ \E n \in TemplateNames, m \in OptBools, u \in OptBools, w \in WaitUrls :
       RenderCreateConference(n, m, u, w)
  \/ \E n \in TemplateNames, u \in OptBools : RenderJoinConference(n, u)
  \/ \E ms \in MenuLists, t \in Timeouts : RenderIvrMenu(ms, t)
  \/ \E c \in CallerIds, i \in ClientIdentities, p \in ClientParams :
       RenderIncomingCall(c, i, p)

SpecTemplates == Init /\ [][TemplatesNext]_vars

\* the fluent builder alone
SpecBuilder == Init /\ [][BuilderNext]_vars

\* WhatsAppVoice's call registry
SpecCalls == Init /\ [][CallsNext]_vars

\* both registries of WhatsAppVoice and the operations that fill and change them
RegistryNext ==
  \/ \E c \in ConfIds, ps \in ParticipantLists, o \in Outcomes : CreateConferenceStart(c, ps, o)
  \/ \E i \in 1..MaxTasks, o \in Outcomes : CreateConferenceResume(i, o)
  \/ \E c \in ConfIds, a \in Addresses, o \in Outcomes : JoinConferenceStart(c, a, o)
  \/ \E i \in 1..MaxTasks : AddParticipantResume(i)
  \/ \E s \in 1..MaxSessions, a \in Addresses : RemoveParticipant(s, a)
  \/ \E c \in ConfIds : EndConference(c)
  \/ Incoming
  \/ \E c \in 1..MaxCalls : DisconnectCall(c)

SpecRegistry == Init /\ [][RegistryNext]_vars

\* both registries filled and changed, and destroy()
TeardownNext ==
  \/ \E c \in ConfIds, ps \in ParticipantLists, o \in Outcomes : CreateConferenceStart(c, ps, o)
  \/ \E i \in 1..MaxTasks, o \in Outcomes : CreateConferenceResume(i, o)
  \/ \E c \in ConfIds, a \in Addresses, o \in Outcomes : JoinConferenceStart(c, a, o)
  \/ \E i \in 1..MaxTasks : AddParticipantResume(i)
  \/ \E c \in ConfIds : EndConference(c)
  \/ Incoming
  \/ \E c \in 1..MaxCalls : DisconnectCall(c)
  \/ Destroy

SpecTeardown == Init /\ [][TeardownNext]_vars

\* WhatsAppVoice's conference registry and its ConferenceSessions
SpecConf == Init /\ [][ConfNext]_vars

\* the server's webhooks and its conference registry
SpecServer == Init /\ [][ServerNext]_vars

\* the page: the calls WhatsAppVoiceClient makes and their events
ClientNext ==
  \/ \E p \in PhoneNumbers, o \in Outcomes : ClientMakeCallStart(p, o)
  \/ \E i \in 1..MaxTasks : ClientMakeCallResume(i)
  \/ HangupCall
  \/ \E c \in 1..MaxCalls : ClientAcceptEvent(c)
  \/ \E c \in 1..MaxCalls : ClientDisconnectEvent(c)
  \/ \E c \in 1..MaxCalls : ClientErrorEvent(c)

SpecClient == Init /\ [][ClientNext]_vars

\* ---------------------------------------------------------------------
\* Properties
\* ---------------------------------------------------------------------

\* C1: every document build() returns holds exactly one closing </Response>
\* tag, however many times build() has been called before (the second build()
\* returns what the first returned).
C1_BuildIdempotent ==
  \A i \in 1..Len(docs) : Count(docs[i], "</Response>") = 1

\* C2: a create request for a conference id that is already in the registry
\* is answered with an error and leaves the registry as it was.
C2_DuplicateCreateFails ==
  [][\A n \in ConfIds, m \in BOOLEAN, f \in Callers :
       (WebhookConferenceCreate(n, m, f) /\ n \in DOMAIN srvConferences)
         => (lastReq'.status # 200 /\ srvConferences' = srvConferences)]_vars

\* C3: addParticipant with an address that is already a participant of the
\* session is a no-op: it raises no error, opens no call and leaves the
\* participants map (keys, calls, order) as it was.
C3_AddParticipantIdempotent ==
  [][/\ \A s \in 1..MaxSessions, a \in Addresses, o \in Outcomes :
          (AddParticipantStart(s, a, o) /\ HasParticipant(sessions[s].participants, a))
            => (calls' = calls /\ sessions' = sessions /\ lastOp'.res \notin Errors)
     /\ \A i \in 1..MaxTasks :
          (AddParticipantResume(i)
             /\ HasParticipant(sessions[tasks[i].sid].participants, tasks[i].number))
            => (calls' = calls /\ sessions' = sessions /\ lastOp'.res \notin Errors)]_vars

\* C4: adding a participant to a conference id that is not in the registry is
\* answered with a not-found error and changes no registry state, for the
\* add-participant API and for the join webhook.
C4_AddToUnknownConferenceFails ==
  [][/\ \A n \in ConfIds, f \in Callers :
          (WebhookConferenceJoin(n, f) /\ n \notin DOMAIN srvConferences)
            => (lastReq'.status = 404 /\ srvConferences' = srvConferences)
     /\ \A n \in ConfIds, a \in Addresses, o \in Outcomes :
          (ApiAddParticipant(n, a, o) /\ n \notin DOMAIN srvConferences
             /\ StartsWith(a, Prefix))
            => (lastReq'.status = 404 /\ srvConferences' = srvConferences)]_vars

\* C5: removeParticipant(a) on a session that does not hold a raises no
\* error, disconnects no call and leaves every participant list unchanged.
C5_RemoveAbsentParticipantNoop ==
  [][lastOp'.op = "removeParticipant" =>
       \A s \in 1..MaxSessions, a \in Addresses :
         (RemoveParticipant(s, a) /\ ~HasParticipant(sessions[s].participants, a))
           => (sessions' = sessions /\ calls' = calls /\ lastOp'.res \notin Errors)]_vars

\* C5 witness: removeParticipant has just run for an address the only
\* session, which has participants, does not hold.
C5_Witness ==
  /\ lastOp = Op("removeParticipant", "absent", 0)
  /\ Len(sessions) = 1
  /\ sessions[1].returned
  /\ Len(sessions[1].participants) >= 1

\* C6: endConference(c) raises no error and leaves c out of the registry;
\* every other entry and its session stay as they were, and when c was
\* absent (never created, or already ended) nothing changes at all.
C6_EndConferenceIdempotent ==
  [][lastOp'.op = "endConference" => \A c \in ConfIds :
       EndConference(c)
         => /\ lastOp'.res \notin Errors
            /\ c \notin DOMAIN activeConferences'
            /\ \A d \in DOMAIN activeConferences \ {c} :
                 /\ d \in DOMAIN activeConferences'
                 /\ activeConferences'[d] = activeConferences[d]
                 /\ sessions'[activeConferences[d]] = sessions[activeConferences[d]]
            /\ (c \notin DOMAIN activeConferences
                  => UNCHANGED <<activeConferences, sessions, calls, activeCalls>>)]_vars

\* C6 witness: endConference has just run for an id that is absent because
\* its conference was ended before, while another conference is registered.
C6_Witness ==
  /\ lastOp = Op("endConference", "absent", 0)
  /\ DOMAIN activeConferences # {}
  /\ \E s \in 1..Len(sessions) :
       /\ sessions[s].returned
       /\ sessions[s].conferenceId \notin DOMAIN activeConferences

\* C7: no call that has emitted 'disconnect' or 'error' (or was disconnected
\* by the wrapper) is still registered in activeCalls.
C7_NoDeadCallRegistered ==
  \A c \in activeCalls : calls[c].status = "open"

\* C8: while a conference record exists, its createdAt does not change.
C8_CreatedAtImmutable ==
  [][\A n \in DOMAIN srvConferences \cap DOMAIN srvConferences' :
       srvConferences'[n].createdAt = srvConferences[n].createdAt]_vars

\* the operations on the two registries of WhatsAppVoice
RegistryOps ==
  {"addParticipant", "joinConference", "removeParticipant", "endConference",
   "disconnectCall"}

\* calls a step disconnects, and whether it opens none / at most one
TerminatedCalls ==
  {c \in DOMAIN calls : calls[c].status = "open" /\ calls'[c].status # "open"}
NoCallStarted == Len(calls') = Len(calls)
AtMostOneCallStarted == Len(calls') \in {Len(calls), Len(calls) + 1}

C10_RejectedBeforeConnect ==
  lastOp.res = "invalid" => lastOp.connects = 0

\* C11: every destination a call has been initiated toward, through
\* client.calls.create on the server or through device.connect in the wrapper
\* (the number an operation suspended at device.connect is dialling), is one
\* that isValidWhatsAppNumber accepts.
C11_OnlyValidDestinationsCalled ==
  /\ \A i \in 1..Len(platformCalls) : IsValidWhatsAppNumber(platformCalls[i])
  /\ \A i \in 1..Len(tasks) :
       tasks[i].number # NoAddr => IsValidWhatsAppNumber(tasks[i].number)

\* C12: formatting what formatWhatsAppNumber returned returns it again, and
\* an address isValidWhatsAppNumber accepts comes back from
\* formatWhatsAppNumber as it went in.
C12_FormatIdempotent ==
  applied.fn = "formatWhatsAppNumber" =>
    /\ FormatWhatsAppNumber(applied.str) = applied.str
    /\ (IsValidWhatsAppNumber(applied.arg) => applied.str = applied.arg)

\* C12 witness: formatWhatsAppNumber has been applied to an accepted address
\* and has returned it unchanged.
C12_Witness ==
  /\ applied.fn = "formatWhatsAppNumber"
  /\ IsValidWhatsAppNumber(applied.arg)
  /\ applied.str = applied.arg

\* the prefix, '+', then between 2 and 15 digits, and nothing else
CanonicalShape(s) ==
  \E n \in 2..15 :
    /\ Len(s) = Len(Prefix) + 1 + n
    /\ SubSeq(s, 1, Len(Prefix)) = Prefix
    /\ s[Len(Prefix) + 1] = "+"
    /\ \A i \in (Len(Prefix) + 2)..Len(s) : s[i] \in Digits

\* C13 (as stated): isValidWhatsAppNumber(s) is true exactly when s is the
\* prefix, '+' and between 2 and 15 digits, with nothing before or after.
C13_ValidIffCanonicalShape ==
  applied.fn = "isValidWhatsAppNumber" =>
    (applied.ok <=> CanonicalShape(applied.arg))

\* C13 (amended): isValidWhatsAppNumber(s) is true exactly when s is the
\* prefix, '+' and between 2 and 15 digits of which the first is not 0, with
\* nothing before or after.
C13_ValidIffLeadingNonZero ==
  applied.fn = "isValidWhatsAppNumber" =>
    (applied.ok <=> (CanonicalShape(applied.arg)
                       /\ applied.arg[Len(Prefix) + 2] # "0"))

\* C13 witness: isValidWhatsAppNumber has accepted an address of 15 digits.
C13_Witness ==
  /\ applied.fn = "isValidWhatsAppNumber"
  /\ applied.ok
  /\ Len(applied.arg) = Len(Prefix) + 16

\* C14: for an address isValidWhatsAppNumber accepts, the prefix put in front
\* of what extractPhoneNumber returned is the address again; an input that
\* does not begin with the prefix is returned unchanged.
C14_ExtractRoundTrip ==
  applied.fn = "extractPhoneNumber" =>
    /\ (IsValidWhatsAppNumber(applied.arg) => Prefix \o applied.str = applied.arg)
    /\ (~StartsWith(applied.arg, Prefix) => applied.str = applied.arg)

\* C14 witness: extractPhoneNumber has been applied to an accepted address.
C14_Witness ==
  /\ applied.fn = "extractPhoneNumber"
  /\ IsValidWhatsAppNumber(applied.arg)
  /\ applied.str # applied.arg

\* the values the document gives the attribute name
AttrValues(doc, name) ==
  {doc[k + 2] : k \in {j \in 1..(Len(doc) - 2) : doc[j] = name /\ doc[j + 1] = "=\""}}

\* one declaration, one <Response> opened after it and closed at the very end
WellFormedDocument(doc) ==
  /\ Len(doc) >= 3
  /\ doc[1] = XmlDecl[1]
  /\ Count(doc, "<Response>") = 1
  /\ Count(doc, "</Response>") = 1
  /\ doc[Len(doc)] = "</Response>"

\* C15: createConference returns a well-formed document in which
\* startConferenceOnEnter and endConferenceOnExit are both "true" when
\* moderator is true and both "false" when it is false or absent.
C15_ModeratorFlagsAgree ==
  rendered.fn = "createConference" =>
    /\ rendered.error = "none"
    /\ WellFormedDocument(rendered.doc)
    /\ AttrValues(rendered.doc, "startConferenceOnEnter")
         = {BoolText(rendered.params.moderator)}
    /\ AttrValues(rendered.doc, "endConferenceOnExit")
         = {BoolText(rendered.params.moderator)}

\* two menu options share a digit
HasDuplicateDigit(menuOptions) ==
  \E i, j \in 1..Len(menuOptions) : i # j /\ menuOptions[i].digit = menuOptions[j].digit

\* C16: createConference / joinConference with an empty conference name, and
\* ivrMenu with two options on the same digit, fail and return no markup.
C16_InvalidInputRejected ==
  /\ (rendered.fn \in {"createConference", "joinConference"}
        /\ rendered.params.conferenceName = "")
       => (rendered.error # "none" /\ rendered.doc = NoDocument)
  /\ (rendered.fn = "ivrMenu" /\ HasDuplicateDigit(rendered.params.menuOptions))
       => (rendered.error # "none" /\ rendered.doc = NoDocument)

\* the user-supplied strings of the input sets that hold an operator
\* character, as they read when nothing has escaped them ("a&lt;b" escaped)
Unescaped == {"a<b"}

\* C17: no document build() returned holds a user-supplied string with an
\* operator character in its unescaped form.
C17_UserTextEscaped ==
  \A i \in 1..Len(docs) : \A j \in 1..Len(docs[i]) : docs[i][j] \notin Unescaped

\* the builder's array after new TwiMLBuilder().say(t, so).dial(o).client(id, p)
SayDialClientLines(t, so, o, id, p) ==
  TwiMLBuilderNew
    \o <<SayLine(t, so), StartDialLine(o), <<"    <Client>">>,
         <<"      <Identity>", id, "</Identity>">> >>
    \o ParameterLines(p)
    \o << <<"    </Client>">>, EndDialLine>>

\* C18: build() called at the end of the chain say(t).dial(o).client(id, p)
\* returns a document with exactly one Response wrapper, one Say element and
\* one Dial element holding one Client element with one Parameter per entry
\* of p.
C18_FluentChainBuilds ==
  [][\A t \in Texts, so \in SayOptions, o \in DialOptions,
        id \in Identities, p \in ClientParams :
       (/\ receiver = "DialBuilder"
        /\ dialB = o
        /\ twiml = SayDialClientLines(t, so, o, id, p)
        /\ BuildOnReceiver)
         => /\ receiver' = "string"
            /\ Len(docs') = Len(docs) + 1
            /\ LET d == docs'[Len(docs')] IN
               /\ Count(d, "<Response>") = 1
               /\ Count(d, "</Response>") = 1
               /\ Count(d, "  <Say") = 1
               /\ Count(d, "  <Dial") = 1
               /\ Count(d, "  </Dial>") = 1
               /\ Count(d, "    <Client>") = 1
               /\ Count(d, "      <Parameter name=\"") = Len(p)]_vars

\* the Dial elements opened in the builder's array
DialElements(lines) ==
  Cardinality({i \in 1..Len(lines) : lines[i][1] = "  <Dial"})

\* C19: once a method of the DialBuilder that dial(options) returned has run
\* (the array holds a Dial element), the array holds exactly one Dial element
\* however many of its methods have run, and the chain is back on the parent
\* TwiMLBuilder (or holds the string its build() returned).
C19_OneDialThenParent ==
  DialElements(twiml) >= 1 =>
    /\ DialElements(twiml) = 1
    /\ receiver \in {"TwiMLBuilder", "string"}

\* where the phrases of the spoken prompt begin in the document
PressPositions(doc) == {k \in 1..Len(doc) : doc[k] = "Press "}

\* the i-th smallest element of the set S of positions
NthPosition(S, i) == CHOOSE k \in S : Cardinality({j \in S : j <= k}) = i

\* the position of the first token equal to tok
FirstPosition(doc, tok) ==
  CHOOSE k \in 1..Len(doc) : doc[k] = tok /\ \A j \in 1..(k - 1) : doc[j] # tok

\* C20: the prompt ivrMenu speaks inside its Gather holds one phrase
\* 'Press d for desc.' per option supplied, in the order supplied: the i-th
\* phrase is that of the i-th option, none is dropped and none repeated.
C20_MenuAnnouncedInOrder ==
  rendered.fn = "ivrMenu" =>
    LET opts == rendered.params.menuOptions
        doc  == rendered.doc
        P    == PressPositions(doc)
    IN  /\ rendered.error = "none"
        /\ Cardinality(P) = Len(opts)
        /\ \A k \in P :
             /\ FirstPosition(doc, "    <Say voice=\"Polly.Joanna\">") < k
             /\ k < FirstPosition(doc, "    </Say>")
        /\ \A i \in 1..Len(opts) :
             LET k == NthPosition(P, i) IN
             /\ doc[k + 1] = opts[i].digit
             /\ doc[k + 2] = " for "
             /\ doc[k + 3] = opts[i].description
             /\ doc[k + 4] = "."

\* C20 witness: ivrMenu has rendered two options supplied with digit "2"
\* before digit "1".
C20_Witness ==
  /\ rendered.fn = "ivrMenu"
  /\ Len(rendered.params.menuOptions) = 2
  /\ rendered.params.menuOptions[1].digit = "2"
  /\ rendered.params.menuOptions[2].digit = "1"

\* the distinct elements of a sequence, each at its first occurrence
RECURSIVE Distinct(_)
Distinct(seq) ==
  IF seq = <<>> THEN <<>>
  ELSE LET init == Distinct(SubSeq(seq, 1, Len(seq) - 1))
           last == seq[Len(seq)]
       IN  IF \E i \in 1..Len(init) : init[i] = last THEN init ELSE Append(init, last)

\* C21: when createConference(c, participants) returns its session,
\* getParticipants() on that session lists exactly the supplied addresses in
\* the order supplied: for a list without repetition that is the list itself,
\* and an address supplied more than once is listed once, at the place of its
\* first occurrence (participants are keyed by address).
C21_ListsSuppliedParticipants ==
  [][(lastOp'.op = "createConference" /\ lastOp'.res = "ok") =>
       \A i \in 1..MaxTasks, o \in Outcomes :
         CreateConferenceResume(i, o)
           => [k \in 1..Len(sessions'[tasks[i].sid].participants) |->
                 sessions'[tasks[i].sid].participants[k].number]
                = Distinct(tasks[i].options)]_vars

\* C21 witness: createConference has just returned the only session after
\* three device.connect calls (the conference call and one per address), and
\* the session lists the two addresses supplied, in the order supplied.
C21_Witness ==
  /\ lastOp = Op("createConference", "ok", 3)
  /\ Len(sessions) = 1
  /\ sessions[1].returned
  /\ GetParticipants(1) = <<A1, A2>>

\* C22: no conference leaves the registry because it is empty.  An id leaves
\* activeConferences only in a step of endConference for that id or of
\* destroy(); in particular removeParticipant leaves the registry as it was,
\* also when it removes the last participant, and a conference created with
\* no participants is registered.
C22_NotDestroyedByEmptiness ==
  [][/\ \A c \in DOMAIN activeConferences :
          c \notin DOMAIN activeConferences'
            => \/ lastOp'.op = "destroy"
               \/ lastOp'.op = "endConference" /\ EndConference(c)
     /\ lastOp'.op = "removeParticipant" => activeConferences' = activeConferences
     /\ (lastOp'.op = "createConference" /\ lastOp'.res = "ok") =>
          \A i \in 1..MaxTasks, o \in Outcomes :
            CreateConferenceResume(i, o) => tasks[i].conf \in DOMAIN activeConferences'
    ]_vars

\* C22 on the server (checked under SpecServer): a record leaves the server's
\* registry only in a conference-end event that names it.
C22_ServerRecordLeavesByEndEvent ==
  [][\A n \in DOMAIN srvConferences :
       n \notin DOMAIN srvConferences'
         => (lastReq'.handler = "/conference-events" /\ ConferenceEvent(n, "conference-end"))
    ]_vars

\* C22 witness: removeParticipant has just removed the last participant of a
\* session that is still registered under its id, its conference call open.
C22_Witness ==
  /\ lastOp = Op("removeParticipant", "removed", 0)
  /\ \E c \in DOMAIN activeConferences :
       /\ sessions[activeConferences[c]].participants = <<>>
       /\ calls[sessions[activeConferences[c]].conferenceCall].status = "open"
       /\ \E k \in DOMAIN calls : calls[k].status = "disconnected"

C24_OnlyConferenceEndRemoves ==
  [][lastReq'.handler = "/conference-events" =>
       \A n \in ConfIds, e \in ConferenceEventNames :
         ConferenceEvent(n, e)
           => IF e = "conference-end"
              THEN /\ DOMAIN srvConferences' = DOMAIN srvConferences \ {n}
                   /\ \A m \in DOMAIN srvConferences' : srvConferences'[m] = srvConferences[m]
              ELSE srvConferences' = srvConferences]_vars

\* C24 witness: a conference status event has just been handled and one of
\* the two conferences that were created is still in the registry.
C24_Witness ==
  /\ lastReq = Req("/conference-events", 200, "none")
  /\ Cardinality(DOMAIN srvConferences) = 1

\* the element a token opens ("" when it opens none).  User text holding a
\* raw '<' starts markup that nothing in the document closes.
OpenedBy(tok) ==
  IF tok = "<Response>" THEN "Response"
  ELSE IF tok \in {"  <Say", "    <Say"} THEN "Say"
  ELSE IF tok = "  <Record" THEN "Record"
  ELSE IF tok = "  <Dial" THEN "Dial"
  ELSE IF tok = "    <WhatsApp>" THEN "WhatsApp"
  ELSE IF tok = "    <Client>" THEN "Client"
  ELSE IF tok = "      <Identity>" THEN "Identity"
  ELSE IF tok = "      <Parameter name=\"" THEN "Parameter"
  ELSE IF tok = "    <Conference" THEN "Conference"
  ELSE IF tok = "  <Gather" THEN "Gather"
  ELSE IF tok \in Unescaped THEN "b"
  ELSE ""

\* the element a closing tag closes ("" when the token is no closing tag)
ClosedBy(tok) ==
  IF tok = "</Response>" THEN "Response"
  ELSE IF tok = "</Say>" THEN "Say"
  ELSE IF tok = "  </Dial>" THEN "Dial"
  ELSE IF tok = "</WhatsApp>" THEN "WhatsApp"
  ELSE IF tok = "    </Client>" THEN "Client"
  ELSE IF tok = "</Identity>" THEN "Identity"
  ELSE IF tok = "</Conference>" THEN "Conference"
  ELSE IF tok = "  </Gather>" THEN "Gather"
  ELSE ""

\* the end of an empty-element tag: closes the element whose tag it ends
EmptyElementEnds == {" />", "\" />"}

\* positions of doc that open an element / close one
OpenPositions(doc) == {j \in 1..Len(doc) : OpenedBy(doc[j]) # ""}
ClosePositions(doc) ==
  {j \in 1..Len(doc) : ClosedBy(doc[j]) # "" \/ doc[j] \in EmptyElementEnds}

\* number of elements open after the first k tokens of doc
Depth(doc, k) ==
  Cardinality({j \in OpenPositions(doc) : j <= k})
    - Cardinality({j \in ClosePositions(doc) : j <= k})

\* every closing tag closes the innermost element open at that point (the
\* last one opened at the depth the tag closes), no tag closes more than is
\* open, and nothing is left open at the end
ProperlyNested(doc) ==
  /\ Depth(doc, Len(doc)) = 0
  /\ \A k \in ClosePositions(doc) :
       LET inner == {j \in OpenPositions(doc) : j < k /\ Depth(doc, j) = Depth(doc, k - 1)} IN
       /\ Depth(doc, k - 1) >= 1
       /\ inner # {}
       /\ LET j == CHOOSE i \in inner : \A h \in inner : h <= i IN
          IF doc[k] \in EmptyElementEnds
          THEN OpenedBy(doc[j]) \in {"Record", "Parameter"}
          ELSE OpenedBy(doc[j]) = ClosedBy(doc[k])

\* C25: the document a builder's first build() returns starts with the XML
\* declaration and <Response>, ends with </Response>, and every element
\* opened in it is closed in properly nested order.
C25_WellFormedByConstruction ==
  Len(docs) >= 1 =>
    /\ Len(docs[1]) >= 4
    /\ SubSeq(docs[1], 1, 3) = XmlDecl \o <<"\n">> \o ResponseOpen
    /\ docs[1][Len(docs[1])] = "</Response>"
    /\ ProperlyNested(docs[1])

\* C25 for documents without raw user markup (holds under SpecBuilder): the
\* tags the builder writes itself are always balanced.
C25_BuilderTagsBalanced ==
  (Len(docs) >= 1 /\ \A j \in 1..Len(docs[1]) : docs[1][j] \notin Unescaped) =>
    /\ SubSeq(docs[1], 1, 3) = XmlDecl \o <<"\n">> \o ResponseOpen
    /\ docs[1][Len(docs[1])] = "</Response>"
    /\ ProperlyNested(docs[1])

\* C26: every call device.connect has resolved with for a ConferenceSession
\* and that has not been disconnected is tracked by a session, as its
\* conferenceCall or as a value of its participants map (or is still in the
\* hands of the operation that awaited it and has not resumed yet).
C26_SessionTracksOpenCalls ==
  \A c \in DOMAIN calls :
    calls[c].status = "open" =>
      \/ \E s \in DOMAIN sessions :
           \/ sessions[s].conferenceCall = c
           \/ \E k \in 1..Len(sessions[s].participants) : sessions[s].participants[k].call = c
      \/ \E i \in DOMAIN tasks : tasks[i].call = c

\* C27: every ConferenceSession createConference has returned and that has
\* not been ended (its conference call is still connected) is the session
\* activeConferences holds under its conferenceId, whatever the interleaving
\* of the createConference calls that made the sessions.
C27_CreatedSessionsReachable ==
  \A s \in DOMAIN sessions :
    (sessions[s].returned /\ calls[sessions[s].conferenceCall].status = "open")
      => /\ sessions[s].conferenceId \in DOMAIN activeConferences
         /\ activeConferences[sessions[s].conferenceId] = s

\* C28: once destroy() has run and the operations that were suspended at an
\* await when it ran have resumed, activeCalls and activeConferences are
\* empty and no call of this WhatsAppVoice is connected.
C28_DestroyedStaysEmpty ==
  (destroyed /\ tasks = <<>>) =>
    /\ activeCalls = {}
    /\ activeConferences = <<>>
    /\ \A c \in DOMAIN calls : calls[c].status # "open"

\* C29: a 'disconnect' or 'error' event of a call that is not the one
\* currentCall refers to leaves currentCall as it is, and leaves the call UI as
\* it is while the call currentCall refers to is live.
C29_StaleEventKeepsCurrentCall ==
  [][lastOp'.op \in {"disconnectEvent", "errorEvent"} =>
       \A c \in 1..MaxCalls :
         ((ClientDisconnectEvent(c) \/ ClientErrorEvent(c))
            /\ currentCall # NoCall /\ currentCall # c)
           => /\ currentCall' = currentCall
              /\ calls[currentCall].status = "open" => callUI' = callUI]_vars

\* C30: activeCalls never holds more entries than config.maxConcurrentCalls.
C30_ActiveCallsWithinLimit ==
  Cardinality(activeCalls) <= maxConcurrentCalls

====
